---- MODULE Spec2Model ----
(***************************************************************************)
(* Model of BaixadorVideos: the Twitter/X downloader (downloaders/base.py, *)
(* downloaders/twitter.py), the platform registry                          *)
(* (downloaders/__init__.py) and the legacy script xdownload.py.            *)
(*                                                                         *)
(* A Python str is a sequence of one-character strings.  An optional value *)
(* is None (the empty tuple) or Some(v) (a one-element tuple).  A dict is a *)
(* record whose DOMAIN is its set of keys.  Standard output is assumed to  *)
(* accept every print, and the output directory to be creatable.           *)
(***************************************************************************)
EXTENDS Integers, Sequences, FiniteSets, TLC

\* Longest run of digits the generated tweet ids have.
MaxDigits == 2

None == <<>>
Some(v) == <<v>>

------------------------------------------------------------------------------
\* String literals of the source, character by character.

S_https == <<"h","t","t","p","s",":","/","/">>
S_http == <<"h","t","t","p",":","/","/">>
S_ftp == <<"f","t","p",":","/","/">>
S_www == <<"w","w","w",".">>
S_twitter_com == <<"t","w","i","t","t","e","r",".","c","o","m">>
S_x_com == <<"x",".","c","o","m">>
S_Xcom == <<"X",".","c","o","m">>
S_ax_com == <<"a","x",".","c","o","m">>
S_xacom == <<"x","a","c","o","m">>
S_status == <<"/","s","t","a","t","u","s","/">>
S_twitter == <<"t","w","i","t","t","e","r">>
S_Twitter == <<"T","w","i","t","t","e","r">>
S_x == <<"x">>
S_X == <<"X">>
S_unknown == <<"u","n","k","n","o","w","n">>
S_formatos == <<"-","-","f","o","r","m","a","t","o","s">>
S_plataformas == <<"-","-","p","l","a","t","a","f","o","r","m","a","s">>
S_prog == <<"x","d","o","w","n","l","o","a","d",".","p","y">>
S_embed == <<"h","t","t","p","s",":","/","/","e",".","c","o","/","?","u","=">>
S_photo == <<"/","p","h","o","t","o","/","1">>
S_query == <<"?","s","=","2","0">>
S_best == <<"b","e","s","t">>
S_mp4 == <<"m","p","4">>
S_sem_titulo == <<"S","e","m"," ","t","i","t","u","l","o">>
M_base == <<"U","R","L"," ","i","n","v","a","l","i","d","a"," ","p","a","r","a"," ">>
M_leg == <<"U","R","L"," ","i","n","v","a","l","i","d","a","."," ","U","s","e"," ","u","m","a"," ","U","R","L"," ","d","o"," ","T","w","i","t","t","e","r","/","X"," ","n","o"," ","f","o","r","m","a","t","o",":"," ","h","t","t","p","s",":","/","/","x",".","c","o","m","/","u","s","u","a","r","i","o","/","s","t","a","t","u","s","/","I","D">>
M_dl == <<"E","r","r","o"," ","d","e"," ","d","o","w","n","l","o","a","d",":"," ">>
M_ex == <<"E","r","r","o"," ","a","o"," ","e","x","t","r","a","i","r"," ","i","n","f","o","r","m","a","c","o","e","s",":"," ">>
M_un == <<"E","r","r","o"," ","i","n","e","s","p","e","r","a","d","o",":"," ">>
M_p1 == <<"P","l","a","t","a","f","o","r","m","a"," ","'">>
M_p2 == <<"'"," ","n","a","o"," ","s","u","p","o","r","t","a","d","a","."," ","D","i","s","p","o","n","i","v","e","i","s",":"," ">>
M_sep == <<","," ">>

------------------------------------------------------------------------------
\* str methods and operators.

UPPER == <<"A","B","C","D","E","F","G","H","I","J","K","L","M","N","O","P","Q","R","S","T","U","V","W","X","Y","Z">>
LOWER == <<"a","b","c","d","e","f","g","h","i","j","k","l","m","n","o","p","q","r","s","t","u","v","w","x","y","z">>

\* str.lower() on one character.
LowerChar(c) ==
  IF \E k \in DOMAIN UPPER : UPPER[k] = c
  THEN LOWER[CHOOSE k \in DOMAIN UPPER : UPPER[k] = c]
  ELSE c

\* str.lower()
lower(s) == [k \in DOMAIN s |-> LowerChar(s[k])]

\* sub in s
Contains(s, sub) ==
  \E i \in 1..(Len(s) - Len(sub) + 1) : SubSeq(s, i, i + Len(sub) - 1) = sub

\* sep.join(parts)
RECURSIVE join(_, _)
join(sep, parts) ==
  IF parts = <<>> THEN <<>>
  ELSE IF Len(parts) = 1 THEN parts[1]
  ELSE parts[1] \o sep \o join(sep, Tail(parts))

------------------------------------------------------------------------------
\* Regular expressions (module re), as syntax trees.

\* \d on ASCII input.
Digits == {"0","1","2","3","4","5","6","7","8","9"}

Chr(c) == [t |-> "chr", c |-> c]
Dot == [t |-> "dot"]
Dig == [t |-> "dig"]
Lit(cs) == [t |-> "lit", cs |-> cs]
Cat(rs) == [t |-> "seq", rs |-> rs]
Alt(rs) == [t |-> "alt", rs |-> rs]
Opt(r) == [t |-> "opt", r |-> r]
Plus(r) == [t |-> "plus", r |-> r]

\* Ends(re, s, i): the positions j at which a match of re that starts at
\* position i of s can end (j is the position after the last matched character).
\* EndsFrom(rs, k, s, i): the same for the concatenation of rs[k], rs[k+1], ...
RECURSIVE Ends(_, _, _), EndsFrom(_, _, _, _)
Ends(re, s, i) ==
  CASE re.t = "chr" -> IF i <= Len(s) /\ s[i] = re.c THEN {i + 1} ELSE {}
    [] re.t = "dot" -> IF i <= Len(s) /\ s[i] # "\n" THEN {i + 1} ELSE {}
    [] re.t = "dig" -> IF i <= Len(s) /\ s[i] \in Digits THEN {i + 1} ELSE {}
    [] re.t = "lit" ->
         IF i + Len(re.cs) - 1 <= Len(s) /\ SubSeq(s, i, i + Len(re.cs) - 1) = re.cs
         THEN {i + Len(re.cs)} ELSE {}
    [] re.t = "seq" -> EndsFrom(re.rs, 1, s, i)
    [] re.t = "alt" -> UNION { Ends(re.rs[k], s, i) : k \in DOMAIN re.rs }
    [] re.t = "opt" -> {i} \cup Ends(re.r, s, i)
    [] re.t = "plus" ->
         LET first == Ends(re.r, s, i)
         IN  first \cup UNION { Ends(re, s, j) : j \in first \ {i} }
EndsFrom(rs, k, s, i) ==
  IF k > Len(rs) THEN {i}
  ELSE UNION { EndsFrom(rs, k + 1, s, j) : j \in Ends(rs[k], s, i) }

\* re.match(pattern, s) is not None: a match anchored at the start of s, which
\* need not reach its end.
re_match(re, s) == Ends(re, s, 1) # {}

\* re.search(Lit(marker) (\d+), s): group(1) of the leftmost match, the greedy
\* run of digits after the first occurrence of marker that a digit follows;
\* None without a match.
re_search_group(marker, s) ==
  LET re == Cat(<<Lit(marker), Plus(Dig)>>)
      starts == { i \in 1..Len(s) : Ends(re, s, i) # {} }
  IN  IF starts = {} THEN None
      ELSE LET i == CHOOSE a \in starts : \A b \in starts : a <= b
               es == Ends(re, s, i)
               e == CHOOSE a \in es : \A b \in es : b <= a
           IN  Some(SubSeq(s, i + Len(marker), e - 1))

------------------------------------------------------------------------------
\* downloaders/twitter.py and the same two functions of xdownload.py.

\* r'https?://(www\.)?(twitter|x)\.com/'
DomainPrefix ==
  <<Lit(<<"h","t","t","p">>), Opt(Chr("s")), Lit(<<":","/","/">>), Opt(Lit(S_www)),
    Alt(<<Lit(S_twitter), Lit(S_x)>>), Lit(<<".","c","o","m","/">>)>>

\* r'https?://(www\.)?(twitter|x)\.com/.+/status/\d+'
PatternUserStatus == Cat(DomainPrefix \o <<Plus(Dot), Lit(S_status), Plus(Dig)>>)

\* r'https?://(www\.)?(twitter|x)\.com/i/status/\d+'
PatternIStatus == Cat(DomainPrefix \o <<Chr("i"), Lit(S_status), Plus(Dig)>>)

\* validate_url with re.search in place of re.match: the match may start anywhere.
validate_url_unanchored(url) ==
  LET patterns == <<PatternUserStatus, PatternIStatus>>
  IN  \E k \in DOMAIN patterns : \E i \in 1..Len(url) : Ends(patterns[k], url, i) # {}

\* TwitterDownloader.validate_url
validate_url(url) ==
  LET patterns == <<PatternUserStatus, PatternIStatus>>
  IN  \E k \in DOMAIN patterns : re_match(patterns[k], url)

\* extract_video_id with the pattern r'/status/(\d)': one digit captured.
extract_video_id_one_digit(url) ==
  LET id == re_search_group(S_status, url)
  IN  IF id = None THEN None ELSE Some(SubSeq(id[1], 1, 1))

\* TwitterDownloader.extract_video_id
extract_video_id(url) == re_search_group(S_status, url)

\* xdownload.validar_url
validar_url(url) ==
  LET patterns == <<PatternUserStatus, PatternIStatus>>
  IN  \E k \in DOMAIN patterns : re_match(patterns[k], url)

\* xdownload.extrair_tweet_id
extrair_tweet_id(url) == re_search_group(S_status, url)

\* The class TwitterDownloader: its class attributes.
TwitterDownloader ==
  [cls |-> "TwitterDownloader", name |-> S_twitter,
   supported_domains |-> <<S_twitter_com, S_x_com>>]

\* supports_url without url.lower().
supports_url_case_sensitive(cls, url) ==
  \E k \in DOMAIN cls.supported_domains : Contains(url, cls.supported_domains[k])

\* BaseDownloader.supports_url
supports_url(cls, url) ==
  \E k \in DOMAIN cls.supported_domains :
    Contains(lower(url), cls.supported_domains[k])

------------------------------------------------------------------------------
\* downloaders/__init__.py

\* The dict DOWNLOADERS, as its items in insertion order.
DOWNLOADERS ==
  <<[alias |-> S_twitter, cls |-> TwitterDownloader],
    [alias |-> S_x, cls |-> TwitterDownloader]>>

\* DOWNLOADERS.keys()
keys(reg) == [k \in DOMAIN reg |-> reg[k].alias]

\* The loop of detect_platform from item k on.
RECURSIVE detect_from(_, _, _)
detect_from(reg, k, url) ==
  IF k > Len(reg) THEN None
  ELSE IF supports_url(reg[k].cls, url) THEN Some(reg[k].alias)
  ELSE detect_from(reg, k + 1, url)

detect_platform(reg, url) == detect_from(reg, 1, url)

\* get_downloader without platform.lower().
get_downloader_case_sensitive(reg, platform) ==
  IF ~ \E k \in DOMAIN reg : reg[k].alias = platform
  THEN [raised |-> Some("ValueError"),
        msg |-> M_p1 \o platform \o M_p2 \o join(M_sep, keys(reg)),
        value |-> None]
  ELSE [raised |-> None, msg |-> <<>>,
        value |-> Some(reg[CHOOSE k \in DOMAIN reg : reg[k].alias = platform].cls)]

\* get_downloader: the class, or the ValueError it raises.
get_downloader(reg, platform) ==
  LET p == lower(platform)
  IN  IF ~ \E k \in DOMAIN reg : reg[k].alias = p
      THEN [raised |-> Some("ValueError"),
            msg |-> M_p1 \o p \o M_p2 \o join(M_sep, keys(reg)),
            value |-> None]
      ELSE [raised |-> None, msg |-> <<>>,
            value |-> Some(reg[CHOOSE k \in DOMAIN reg : reg[k].alias = p].cls)]

------------------------------------------------------------------------------
\* Inputs.

RECURSIVE DigitRuns(_)
DigitRuns(n) ==
  IF n = 0 THEN {<<>>}
  ELSE DigitRuns(n - 1)
       \cup { Append(d, c) : d \in { e \in DigitRuns(n - 1) : Len(e) = n - 1 },
                             c \in {"1", "2"} }

Schemes == {S_https, S_http, S_ftp}
Wwws == {<<>>, S_www}
Hosts == {S_twitter_com, S_x_com, S_Xcom, S_ax_com}
Users == {<<>>, <<"a">>, <<"i">>, <<"a","/","b">>, <<"s","t","a","t","u","s">>}
Tails == {<<>>, S_query, S_photo, S_status}

Urls ==
  { sch \o w \o h \o <<"/">> \o u \o S_status \o d \o t :
      sch \in Schemes, w \in Wwws, h \in Hosts, u \in Users,
      d \in DigitRuns(MaxDigits), t \in Tails }
  \cup { <<>>,
         S_https \o S_x_com \o S_status \o <<"1">>,
         S_https \o S_xacom \o <<"/","a">> \o S_status \o <<"1">>,
         S_https \o S_x_com \o <<"/","a">> \o S_status \o <<"1">> \o S_status \o <<"2","2">>,
         S_embed \o S_https \o S_x_com \o <<"/","a">> \o S_status \o <<"1">>,
         <<" ">> \o S_https \o S_twitter_com \o <<"/","a">> \o S_status \o <<"1","2">> }

\* What the engine hands back or raises: str(e) of an exception, the metadata
\* record of a successful extraction.
ErrorTexts == {<<>>, <<"e">>}
Infos ==
  { [title |-> Some(<<"t">>), id |-> <<"7">>, uploader |-> Some(<<"u">>),
     duration |-> Some(<<"9">>), view_count |-> Some(<<"5">>), like_count |-> None],
    [title |-> None, id |-> <<"7">>, uploader |-> None,
     duration |-> None, view_count |-> None, like_count |-> None] }
NoInfo ==
  [title |-> None, id |-> <<>>, uploader |-> None,
   duration |-> None, view_count |-> None, like_count |-> None]
\* kind: "info" (extract_info returned metadata), "falsy" (it returned None or an
\* empty dict), "DownloadError", "ExtractorError", "Exception" (it raised),
\* "PrepareError" (it returned metadata and prepare_filename raised),
\* "CtorError" (yt_dlp.YoutubeDL(...) raised).
ExtractOutcomes ==
  { [kind |-> "info", info |-> i, text |-> <<>>] : i \in Infos }
  \cup { [kind |-> "falsy", info |-> NoInfo, text |-> <<>>] }
  \cup { [kind |-> k, info |-> NoInfo, text |-> x] :
           k \in {"DownloadError", "ExtractorError", "Exception"}, x \in ErrorTexts }
  \cup { [kind |-> "PrepareError", info |-> i, text |-> <<"e">>] : i \in Infos }
CtorOutcomes == { [kind |-> "CtorError", info |-> NoInfo, text |-> x] : x \in ErrorTexts }
NoOutcome == [kind |-> "none", info |-> NoInfo, text |-> <<>>]

Aliases == {S_twitter, S_x, S_Twitter, S_X, S_unknown, <<>>}

CliUrls ==
  { S_https \o S_x_com \o <<"/","a">> \o S_status \o <<"1">>,
    S_http \o S_www \o S_twitter_com \o <<"/","i">> \o S_status \o <<"1","2">> \o S_photo,
    S_https \o S_x_com \o <<"/","a">> \o S_status,
    S_ftp \o S_x_com \o <<"/","a">> \o S_status \o <<"1">> }
Argvs ==
  { <<S_prog>>, <<S_prog, S_formatos>>, <<S_prog, S_plataformas>> }
  \cup { <<S_prog, u>> : u \in CliUrls }
  \cup { <<S_prog, S_formatos, u>> : u \in CliUrls }
  \cup { <<S_prog, u, S_formatos>> : u \in CliUrls }

------------------------------------------------------------------------------
\* State.

VARIABLES
  registry,      \* the module global DOWNLOADERS
  pc,            \* the statement the running call is at; "idle" before, "done" after
  op,            \* the entry point called: "download", "baixar_video", "main",
                 \* "detect_platform", "get_downloader"; "none" before
  url,           \* the argument of the running download
  output_dir,    \* the output directory
  valid,         \* what validate_url / validar_url returned
  video_id,      \* the local video_id / tweet_id
  options,       \* the dict handed to yt_dlp.YoutubeDL
  result,        \* the dict the download builds and returns; None before
  ctor_calls,    \* calls of yt_dlp.YoutubeDL(...) in this call
  engine_calls,  \* calls of ydl.extract_info in this call
  outcome,       \* what the engine did
  returns,       \* return statements executed by the download
  raised,        \* the exception that left the download uncaught; None if none did
  trace,         \* the steps of the download, in order
  query,         \* the argument of detect_platform / get_downloader
  answer,        \* what detect_platform / get_downloader returned or raised
  argv,          \* sys.argv of xdownload.main
  listing,       \* what listar_formatos did: "table", "empty", "error"; "none" before
  exit_code      \* what main returned; None before

dlvars == <<op, url, output_dir, valid, video_id, options, result,
            ctor_calls, engine_calls, outcome, returns, raised, trace>>
regvars == <<query, answer>>
clivars == <<argv, listing, exit_code>>
vars == <<registry, pc, dlvars, regvars, clivars>>

Init ==
  /\ registry = DOWNLOADERS
  /\ pc = "idle"
  /\ op = "none"
  /\ url = <<>>
  /\ output_dir = <<>>
  /\ valid = None
  /\ video_id = None
  /\ options = <<>>
  /\ result = None
  /\ ctor_calls = 0
  /\ engine_calls = 0
  /\ outcome = NoOutcome
  /\ returns = 0
  /\ raised = None
  /\ trace = <<>>
  /\ query = None
  /\ answer = None
  /\ argv = <<>>
  /\ listing = "none"
  /\ exit_code = None

------------------------------------------------------------------------------
\* dict operations.

\* d[k] = v
Put(d, k, v) == [x \in DOMAIN d \cup {k} |-> IF x = k THEN v ELSE d[x]]

\* {**a, **b}
Merge(a, b) == [x \in DOMAIN a \cup DOMAIN b |-> IF x \in DOMAIN b THEN b[x] ELSE a[x]]

\* info.get(k, default)
Get(info, k, default) == IF info[k] = None THEN default ELSE info[k]

------------------------------------------------------------------------------
\* BaseDownloader.download and xdownload.baixar_video, statement by statement.

Legacy == op \in {"baixar_video", "main"}

\* Path.home() / "downloads_videos" and Path.home() / "downloads_x"
DirVideos == <<"~","/","d","o","w","n","l","o","a","d","s","_","v","i","d","e","o","s">>
DirX == <<"~","/","d","o","w","n","l","o","a","d","s","_","x">>

\* '%(title).50s_%(id)s.%(ext)s' under the output directory
OutTmpl(dir) == dir \o <<"/","%","(","t","i","t","l","e",")",".","5","0","s","_","%","(","i","d",")","s",".","%","(","e","x","t",")","s">>

\* ydl.prepare_filename(info) with that template
prepare_filename(dir, info) ==
  LET t == IF info.title = None THEN <<"N","A">> ELSE info.title[1]
  IN  dir \o <<"/">> \o SubSeq(t, 1, IF Len(t) < 50 THEN Len(t) ELSE 50)
          \o <<"_">> \o info.id \o <<".">> \o S_mp4

\* BaseDownloader._get_base_options
get_base_options(dir) ==
  [outtmpl |-> OutTmpl(dir), format |-> S_best, progress_hooks |-> <<"hook">>,
   merge_output_format |-> S_mp4, quiet |-> TRUE, no_warnings |-> TRUE,
   retries |-> 3, socket_timeout |-> 30]

\* BaseDownloader.get_ydl_options, which TwitterDownloader does not override
get_ydl_options == [x \in {} |-> TRUE]

\* ydl_opts of baixar_video
ydl_opts(dir) ==
  [outtmpl |-> OutTmpl(dir), format |-> S_best, progress_hooks |-> <<"hook_progresso">>,
   merge_output_format |-> S_mp4, quiet |-> TRUE, no_warnings |-> TRUE,
   retries |-> 3, socket_timeout |-> 30, writethumbnail |-> FALSE]

\* The dict of the early return on an invalid URL.
InvalidResult ==
  IF Legacy
  THEN [success |-> FALSE, error |-> Some(M_leg)]
  ELSE [success |-> FALSE, error |-> Some(M_base \o TwitterDownloader.name)]

\* The dict result / resultado before the engine runs.
InitialResult(id) ==
  IF Legacy
  THEN [success |-> FALSE, filepath |-> None, title |-> None, error |-> None,
        tweet_id |-> id]
  ELSE [success |-> FALSE, filepath |-> None, title |-> None, error |-> None,
        video_id |-> id, platform |-> TwitterDownloader.name]

\* The body of `if info:`.
SuccessResult(r, dir, info) ==
  LET r1 == Put(r, "success", TRUE)
      r2 == Put(r1, "filepath", Some(prepare_filename(dir, info)))
      r3 == Put(r2, "title", Some(Get(info, "title", Some(S_sem_titulo))[1]))
      r4 == Put(r3, "duration", info.duration)
      r5 == Put(r4, "uploader", info.uploader)
  IN  IF Legacy
      THEN Put(Put(r5, "view_count", info.view_count), "like_count", info.like_count)
      ELSE r5

\* The exception class of an outcome that is an exception; "none" otherwise.
ClassOf(o) ==
  CASE o.kind \in {"DownloadError", "ExtractorError"} -> o.kind
    [] o.kind \in {"Exception", "PrepareError", "CtorError"} -> "Exception"
    [] OTHER -> "none"

\* issubclass: yt_dlp.utils.DownloadError and ExtractorError derive from Exception.
IsSubclass(c, d) == c # "none" /\ (c = d \/ d = "Exception")

\* The try statement without its last clause, `except Exception`.
ExceptClauses_without_generic == <<"DownloadError", "ExtractorError">>

\* The except clauses of the try statement, in their order.
ExceptClauses == <<"DownloadError", "ExtractorError", "Exception">>

\* The first except clause that catches the outcome; "none" if none does.
Handler(o) ==
  LET hits == { k \in DOMAIN ExceptClauses : IsSubclass(ClassOf(o), ExceptClauses[k]) }
  IN  IF hits = {} THEN "none"
      ELSE ExceptClauses[CHOOSE k \in hits : \A j \in hits : k <= j]

\* The message the handler stores in result['error'].
ErrorMessage(o) ==
  CASE Handler(o) = "DownloadError" -> M_dl \o o.text
    [] Handler(o) = "ExtractorError" -> M_ex \o o.text
    [] OTHER -> M_un \o o.text

\* What the try statement leaves in result for an engine outcome.
MapResult(r, dir, o) ==
  CASE o.kind = "info" -> SuccessResult(r, dir, o.info)
    [] o.kind = "falsy" -> r
    [] Handler(o) = "none" -> r
    [] OTHER -> Put(r, "error", Some(ErrorMessage(o)))

Fresh ==
  /\ valid' = None
  /\ video_id' = None
  /\ options' = <<>>
  /\ result' = None
  /\ ctor_calls' = 0
  /\ engine_calls' = 0
  /\ outcome' = NoOutcome
  /\ returns' = 0
  /\ raised' = None
  /\ trace' = <<>>

\* TwitterDownloader(output_dir=None).download(u) is called.
CallDownload ==
  /\ pc = "idle"
  /\ \E u \in Urls :
     /\ op' = "download"
     /\ url' = u
     /\ output_dir' = DirVideos
     /\ pc' = "validate"
     /\ Fresh
     /\ UNCHANGED <<registry, regvars, clivars>>

\* baixar_video(u) is called: output_dir is None, criar_diretorio_downloads runs.
CallBaixarVideo ==
  /\ pc = "idle"
  /\ \E u \in Urls :
     /\ op' = "baixar_video"
     /\ url' = u
     /\ output_dir' = DirX
     /\ pc' = "validate"
     /\ Fresh
     /\ UNCHANGED <<registry, regvars, clivars>>

\* Validate without the early return: an invalid URL goes on to the engine.
Validate_without_return ==
  /\ pc = "validate"
  /\ valid' = Some(IF Legacy THEN validar_url(url) ELSE validate_url(url))
  /\ pc' = "extract_id"
  /\ trace' = Append(trace, "validate")
  /\ UNCHANGED <<registry, op, url, output_dir, video_id, options, result, ctor_calls,
                 engine_calls, outcome, returns, raised, regvars, clivars>>

\* if not self.validate_url(url): return {...}
Validate ==
  /\ pc = "validate"
  /\ valid' = Some(IF Legacy THEN validar_url(url) ELSE validate_url(url))
  /\ IF valid'[1]
     THEN /\ pc' = "extract_id"
          /\ UNCHANGED result
     ELSE /\ pc' = "return"
          /\ result' = Some(InvalidResult)
  /\ trace' = Append(trace, "validate")
  /\ UNCHANGED <<registry, op, url, output_dir, video_id, options, ctor_calls,
                 engine_calls, outcome, returns, raised, regvars, clivars>>

\* video_id = self.extract_video_id(url)
ExtractId ==
  /\ pc = "extract_id"
  /\ video_id' = IF Legacy THEN extrair_tweet_id(url) ELSE extract_video_id(url)
  /\ pc' = "merge_options"
  /\ trace' = Append(trace, "extract_id")
  /\ UNCHANGED <<registry, op, url, output_dir, valid, options, result, ctor_calls,
                 engine_calls, outcome, returns, raised, regvars, clivars>>

\* options = {**base, **specific}; result = {...}
MergeOptions ==
  /\ pc = "merge_options"
  /\ options' = IF Legacy THEN ydl_opts(output_dir)
                ELSE Merge(get_base_options(output_dir), get_ydl_options)
  /\ result' = Some(InitialResult(video_id))
  /\ pc' = "construct"
  /\ trace' = Append(trace, "merge_options")
  /\ UNCHANGED <<registry, op, url, output_dir, valid, video_id, ctor_calls,
                 engine_calls, outcome, returns, raised, regvars, clivars>>

\* with yt_dlp.YoutubeDL(options) as ydl: the constructor returns or raises.
Construct ==
  /\ pc = "construct"
  /\ ctor_calls' = ctor_calls + 1
  /\ trace' = Append(trace, "invoke_engine")
  /\ \/ /\ pc' = "extract_info"
        /\ UNCHANGED outcome
     \/ \E o \in CtorOutcomes :
          /\ outcome' = o
          /\ pc' = "map_outcome"
  /\ UNCHANGED <<registry, op, url, output_dir, valid, video_id, options, result,
                 engine_calls, returns, raised, regvars, clivars>>

\* info = ydl.extract_info(url, download=True), and prepare_filename after it.
ExtractInfo ==
  /\ pc = "extract_info"
  /\ engine_calls' = engine_calls + 1
  /\ \E o \in ExtractOutcomes : outcome' = o
  /\ pc' = "map_outcome"
  /\ UNCHANGED <<registry, op, url, output_dir, valid, video_id, options, result,
                 ctor_calls, returns, raised, trace, regvars, clivars>>

\* MapOutcome with one retry: after an exception the engine is called again.
MapOutcome_retry ==
  /\ pc = "map_outcome"
  /\ result' = Some(MapResult(result[1], output_dir, outcome))
  /\ raised' = None
  /\ pc' = IF ClassOf(outcome) # "none" /\ engine_calls < 2
           THEN "extract_info" ELSE "return"
  /\ trace' = Append(trace, "map_outcome")
  /\ UNCHANGED <<registry, op, url, output_dir, valid, video_id, options,
                 ctor_calls, engine_calls, outcome, returns, regvars, clivars>>

\* The rest of the try statement: `if info:` or the except clause that matches;
\* an exception no clause catches leaves the function.
MapOutcome ==
  /\ pc = "map_outcome"
  /\ result' = Some(MapResult(result[1], output_dir, outcome))
  /\ IF ClassOf(outcome) # "none" /\ Handler(outcome) = "none"
     THEN /\ raised' = Some(ClassOf(outcome))
          /\ pc' = "done"
     ELSE /\ raised' = None
          /\ pc' = "return"
  /\ trace' = Append(trace, "map_outcome")
  /\ UNCHANGED <<registry, op, url, output_dir, valid, video_id, options,
                 ctor_calls, engine_calls, outcome, returns, regvars, clivars>>

\* return result
Return ==
  /\ pc = "return"
  /\ returns' = returns + 1
  /\ pc' = IF op = "main" THEN "main_return" ELSE "done"
  /\ trace' = Append(trace, "return")
  /\ UNCHANGED <<registry, op, url, output_dir, valid, video_id, options, result,
                 ctor_calls, engine_calls, outcome, raised, regvars, clivars>>

------------------------------------------------------------------------------
\* The registry functions.

DetectPlatform ==
  /\ pc = "idle"
  /\ \E u \in Urls :
     /\ op' = "detect_platform"
     /\ query' = Some(u)
     /\ answer' = detect_platform(registry, u)
     /\ pc' = "done"
     /\ UNCHANGED <<registry, url, output_dir, valid, video_id, options, result,
                    ctor_calls, engine_calls, outcome, returns, raised, trace, clivars>>

GetDownloader ==
  /\ pc = "idle"
  /\ \E a \in Aliases :
     /\ op' = "get_downloader"
     /\ query' = Some(a)
     /\ answer' = get_downloader(registry, a)
     /\ pc' = "done"
     /\ UNCHANGED <<registry, url, output_dir, valid, video_id, options, result,
                    ctor_calls, engine_calls, outcome, returns, raised, trace, clivars>>

------------------------------------------------------------------------------
\* xdownload.main and listar_formatos.

\* kind: "formats" (metadata with a 'formats' list, printed as a table),
\* "noformats" (falsy metadata or none with 'formats'), "CtorError" and
\* "Exception" (the constructor or extract_info raised; caught and printed).
ListOutcomes ==
  { [kind |-> k, info |-> NoInfo, text |-> <<"e">>] :
      k \in {"formats", "noformats", "CtorError", "Exception"} }

\* main up to its first return or call.
Main ==
  /\ pc = "idle"
  /\ \E av \in Argvs :
     /\ op' = "main"
     /\ argv' = av
     /\ Fresh
     /\ IF Len(av) < 2
        THEN /\ exit_code' = Some(1)
             /\ pc' = "done"
             /\ UNCHANGED <<url, output_dir>>
        ELSE IF av[2] = S_formatos /\ Len(av) > 2
        THEN /\ pc' = "listar_formatos"
             /\ url' = av[3]
             /\ UNCHANGED <<exit_code, output_dir>>
        ELSE /\ pc' = "validate"
             /\ url' = av[2]
             /\ output_dir' = DirX
             /\ UNCHANGED exit_code
     /\ UNCHANGED <<registry, regvars, listing>>

\* listar_formatos(sys.argv[2]); return 0
ListarFormatos ==
  /\ pc = "listar_formatos"
  /\ \E o \in ListOutcomes :
       /\ outcome' = o
       /\ ctor_calls' = ctor_calls + 1
       /\ engine_calls' = IF o.kind = "CtorError" THEN engine_calls ELSE engine_calls + 1
       /\ listing' = CASE o.kind = "formats" -> "table"
                       [] o.kind = "noformats" -> "empty"
                       [] OTHER -> "error"
  /\ exit_code' = Some(0)
  /\ pc' = "done"
  /\ UNCHANGED <<registry, op, url, output_dir, valid, video_id, options, result,
                 returns, raised, trace, regvars, argv>>

\* return 0 if resultado['success'] else 1
MainReturn ==
  /\ pc = "main_return"
  /\ exit_code' = Some(IF result[1].success THEN 0 ELSE 1)
  /\ pc' = "done"
  /\ UNCHANGED <<registry, dlvars, regvars, argv, listing>>

------------------------------------------------------------------------------

Next ==
  \/ CallDownload
  \/ CallBaixarVideo
  \/ Validate
  \/ ExtractId
  \/ MergeOptions
  \/ Construct
  \/ ExtractInfo
  \/ MapOutcome
  \/ Return
  \/ DetectPlatform
  \/ GetDownloader
  \/ Main
  \/ ListarFormatos
  \/ MainReturn

Spec == Init /\ [][Next]_vars

------------------------------------------------------------------------------
\* Vocabulary of the properties.

Downloading == op \in {"download", "baixar_video"} \/ (op = "main" /\ listing = "none" /\ pc # "listar_formatos" /\ Len(argv) >= 2)

IsDigits(s) == s # <<>> /\ \A k \in DOMAIN s : s[k] \in Digits
NoSlash(s) == s # <<>> /\ \A k \in DOMAIN s : s[k] # "/"
StartsWith(s, p) == Len(p) <= Len(s) /\ SubSeq(s, 1, Len(p)) = p
At(s, k, p) == k >= 1 /\ k + Len(p) - 1 <= Len(s) /\ SubSeq(s, k, k + Len(p) - 1) = p

\* https://(www.)?(twitter|x).com/
HttpsDomains ==
  { S_https \o w \o h \o <<"/">> : w \in {<<>>, S_www}, h \in {S_twitter_com, S_x_com} }
\* https?://(www.)?(twitter|x).com/
HttpDomains ==
  HttpsDomains
  \cup { S_http \o w \o h \o <<"/">> : w \in {<<>>, S_www}, h \in {S_twitter_com, S_x_com} }

\* The <digits> of a URL that is, as a whole,
\* https://(www.)?(twitter|x).com/<user>/status/<digits>, <user> one path segment
\* ("i" included); empty for every other URL.
StatusDigits(u) ==
  { SubSeq(u, k + Len(S_status), Len(u)) :
      k \in { j \in 1..Len(u) :
                /\ At(u, j, S_status)
                /\ IsDigits(SubSeq(u, j + Len(S_status), Len(u)))
                /\ \E p \in HttpsDomains :
                     StartsWith(u, p) /\ NoSlash(SubSeq(u, Len(p) + 1, j - 1)) } }

\* u begins with https?://(www.)?(twitter|x).com/, then one character or more,
\* then /status/ and a digit.
HasStatusPrefix(u) ==
  \E p \in HttpDomains : \E j \in 1..Len(u) :
    /\ StartsWith(u, p)
    /\ j >= Len(p) + 2
    /\ At(u, j, S_status)
    /\ j + Len(S_status) <= Len(u)
    /\ u[j + Len(S_status)] \in Digits

\* The last maximal run of digits of u; empty when u has no digit.
LastDigitRun(u) ==
  LET ds == { k \in DOMAIN u : u[k] \in Digits }
  IN  IF ds = {} THEN <<>>
      ELSE LET e == CHOOSE k \in ds : \A j \in ds : j <= k
               b == CHOOSE k \in ds : (\A j \in k..e : j \in ds) /\ (k - 1) \notin ds
           IN  SubSeq(u, b, e)

NonEmptyError(r) == "error" \in DOMAIN r /\ r.error # None /\ r.error[1] # <<>>

IsPrefix(a, b) == Len(a) <= Len(b) /\ SubSeq(b, 1, Len(a)) = a

------------------------------------------------------------------------------
\* C1: for a URL that validate_url / validar_url rejects, download and baixar_video
\* return right after the validation a result with success = false and a
\* non-empty error message, and neither yt_dlp.YoutubeDL nor extract_info is
\* called at any point of the call.
C1_InvalidUrlSkipsEngine ==
  (Downloading /\ valid = Some(FALSE)) =>
    /\ ctor_calls = 0
    /\ engine_calls = 0
    /\ raised = None
    /\ pc \in {"return", "main_return", "done"}
    /\ result # None
    /\ result[1].success = FALSE
    /\ NonEmptyError(result[1])
    /\ IsPrefix(trace, <<"validate", "return">>)

C1_Witness ==
  /\ op = "download"
  /\ pc = "done"
  /\ valid = Some(FALSE)
  /\ returns = 1
  /\ url = S_embed \o S_https \o S_x_com \o <<"/","a">> \o S_status \o <<"1">>

\* C2: for a URL of the form
\* https://(www.)?(twitter|x).com/<user>/status/<digits> (<user> one path
\* segment, "i" included), the validation returns true and the extracted id is
\* exactly <digits>.
C2_StatusUrlAcceptedWithItsDigits ==
  \A d \in StatusDigits(url) :
    (Downloading /\ valid # None) =>
      /\ valid = Some(TRUE)
      /\ (pc # "extract_id" => video_id = Some(d))

C2_Witness ==
  /\ op = "download"
  /\ pc = "done"
  /\ url = S_https \o S_www \o S_twitter_com \o <<"/","i">> \o S_status \o <<"1","2">>
  /\ valid = Some(TRUE)
  /\ video_id = Some(<<"1","2">>)

\* C3 as stated: a URL that is not of the form
\* https://(www.)?(twitter|x).com/<user>/status/<digits> is rejected.
C3_OnlyStatusUrlsAccepted ==
  (Downloading /\ valid = Some(TRUE)) => StatusDigits(url) # {}

\* C3 amended: a URL that does not begin with
\* http(s)://(www.)?(twitter|x).com/<one character or more>/status/<digit> is
\* rejected; the match is anchored at the start of the URL, so such a URL
\* embedded after another prefix is rejected.
C3_UrlsWithoutStatusPrefixRejected ==
  (Downloading /\ valid # None) => (valid = Some(TRUE) => HasStatusPrefix(url))

C3_Witness ==
  /\ op = "baixar_video"
  /\ pc = "done"
  /\ url = <<" ">> \o S_https \o S_twitter_com \o <<"/","a">> \o S_status \o <<"1","2">>
  /\ valid = Some(FALSE)

\* C4: detect_platform returns the alias of the first registry entry, in
\* registration order, whose class has a supported domain that is a substring of
\* the lowercased URL, and None when there is none; https://x.com/a/status/1
\* gives "twitter", and "x" is never returned.
C4_DetectPlatformFirstMatch ==
  (op = "detect_platform" /\ pc = "done") =>
    LET u == query[1]
        hits == { k \in DOMAIN registry :
                    \E j \in DOMAIN registry[k].cls.supported_domains :
                      Contains(lower(u), registry[k].cls.supported_domains[j]) }
    IN  /\ answer = IF hits = {} THEN None
                    ELSE Some(registry[CHOOSE k \in hits : \A j \in hits : k <= j].alias)
        /\ answer # Some(S_x)
        /\ (\E h \in {S_twitter_com, S_x_com, S_Xcom} : Contains(u, h)) => answer = Some(S_twitter)
        /\ u = S_https \o S_x_com \o <<"/","a">> \o S_status \o <<"1">> => answer = Some(S_twitter)

C4_Witness ==
  /\ op = "detect_platform"
  /\ pc = "done"
  /\ query = Some(S_https \o S_x_com \o <<"/","a">> \o S_status \o <<"1">>)
  /\ answer = Some(S_twitter)

\* C5: get_downloader looks the lowercased alias up: a registered one gives its
\* class, any other raises ValueError with a message that lists exactly the
\* registered aliases, "twitter, x"; the registry is unchanged.
C5_GetDownloaderLookup ==
  /\ registry = DOWNLOADERS
  /\ (op = "get_downloader" /\ pc = "done") =>
       LET a == query[1]
       IN  IF a \in {S_twitter, S_x, S_Twitter, S_X}
           THEN /\ answer.raised = None
                /\ answer.value = Some(TwitterDownloader)
           ELSE /\ answer.raised = Some("ValueError")
                /\ answer.value = None
                /\ answer.msg = M_p1 \o a \o M_p2
                                  \o <<"t","w","i","t","t","e","r",","," ","x">>

C5_Witness ==
  /\ op = "get_downloader"
  /\ pc = "done"
  /\ query = Some(S_unknown)
  /\ answer.raised = Some("ValueError")
  /\ registry = DOWNLOADERS

\* C6 as stated: download of a URL with no digits after /status/ does not raise
\* and returns a result that has the field video_id, with value None.
C6_NoDigitsGivesVideoIdNone ==
  (op = "download" /\ pc = "done" /\ Contains(url, S_status)
     /\ ~ \E j \in 1..Len(url) :
            At(url, j, S_status) /\ j + Len(S_status) <= Len(url)
              /\ url[j + Len(S_status)] \in Digits) =>
    /\ raised = None
    /\ returns = 1
    /\ "video_id" \in DOMAIN result[1]
    /\ result[1].video_id = None

\* C7 as stated: main returns 0 exactly when the requested operation succeeded,
\* and 1 when it failed or the arguments are missing or invalid.
C7_ExitCodeTellsSuccess ==
  (op = "main" /\ pc = "done") =>
    LET succeeded == \/ listing \in {"table", "empty"}
                     \/ (result # None /\ result[1].success)
    IN  /\ exit_code \in {Some(0), Some(1)}
        /\ (exit_code = Some(0)) <=> succeeded

\* C8: for a validated URL and an engine outcome that is an exception (from the
\* constructor, extract_info or prepare_filename), the download raises nothing and
\* returns a result with success = false, filepath = None and a non-empty error
\* message.
C8_EngineErrorsBecomeResults ==
  (Downloading /\ valid = Some(TRUE) /\ ClassOf(outcome) # "none"
     /\ pc \in {"return", "main_return", "done"}) =>
    /\ raised = None
    /\ (pc # "return" => returns = 1)
    /\ result[1].success = FALSE
    /\ result[1].filepath = None
    /\ NonEmptyError(result[1])

C8_Witness ==
  /\ op = "download"
  /\ pc = "done"
  /\ valid = Some(TRUE)
  /\ outcome.kind = "Exception"
  /\ outcome.text = <<>>
  /\ result[1].error = Some(M_un)

\* C9: the steps of a download occur in the order validate, extract id, merge
\* options, invoke engine, map outcome, return; extract_info is called at most
\* once, also after an engine error, and the result is returned exactly once.
C9_StepsInOrderEngineOnce ==
  Downloading =>
    /\ \/ IsPrefix(trace, <<"validate", "extract_id", "merge_options",
                            "invoke_engine", "map_outcome", "return">>)
       \/ IsPrefix(trace, <<"validate", "return">>)
    /\ ctor_calls <= 1
    /\ engine_calls <= 1
    /\ returns <= 1
    /\ (pc \in {"done", "main_return"} => returns = 1)
    /\ (returns = 1 => trace[Len(trace)] = "return")

C9_Witness ==
  /\ op = "baixar_video"
  /\ pc = "done"
  /\ outcome.kind = "DownloadError"
  /\ engine_calls = 1
  /\ returns = 1
  /\ trace = <<"validate", "extract_id", "merge_options", "invoke_engine",
               "map_outcome", "return">>

\* C10 as stated: for a URL validar_url accepts, the id extrair_tweet_id returns
\* is the last run of digits of the URL.
C10_IdIsLastDigitRun ==
  (Downloading /\ Legacy /\ valid = Some(TRUE) /\ pc \notin {"validate", "extract_id"}) =>
    video_id = Some(LastDigitRun(url))

\* C11 as stated: for every URL and every engine outcome, that of extract_info
\* returning None or an empty dict without raising included, the result a download
\* returns has success = true exactly when filepath is set, and a result with
\* success = false carries a non-empty error message.
C11_FailureAlwaysExplained ==
  (Downloading /\ returns = 1) =>
    LET r == result[1]
        filepath_set == "filepath" \in DOMAIN r /\ r.filepath # None
    IN  /\ r.success <=> filepath_set
        /\ ~ r.success => NonEmptyError(r)

====
